---- MODULE Spec2Model ----
(***************************************************************************)
(* Model of the Tauri command layer of nsg-gui (src-tauri/src/main.rs):    *)
(* the session state (AppState.credentials), the job commands, the         *)
(* download-and-zip pipeline of download_results and the showcase-mode     *)
(* anonymizer.                                                             *)
(*                                                                         *)
(* Strings are sequences of one-character strings, so that split, format!, *)
(* join and the byte hash are computed as the code computes them.          *)
(* Option<T> is a set with at most one element: None == {}, Some(x) == {x}.*)
(*                                                                         *)
(* Collaborators that are not part of the repository are modelled by the   *)
(* interface main.rs uses:                                                 *)
(*  - nsg_cli::NsgClient: every call either fails or returns data of the   *)
(*    remote service's jobs (RemoteJobs);                                  *)
(*  - zip::ZipWriter (the release with FileOptions<T>, main.rs line 297):  *)
(*    start_file refuses a name the archive already holds;                 *)
(*  - std::fs and tauri's Emitter: each call succeeds or fails.            *)
(* One download_results run is in flight at a time (the frontend           *)
(* serialises them); the other commands interleave freely with it.         *)
(***************************************************************************)
EXTENDS Integers, Sequences, FiniteSets, TLC

\* ------------------------------------------------------------------ bounds
MaxCalls == 3      \* command invocations in one behaviour
MaxFiles == 2      \* files the fetcher returns in one run
NumSlots == 2      \* commands in flight at the same time
MaxLen   == 13     \* bytes of a string handed to an anonymizer function

\* ------------------------------------------------------- program constants
HashMul   == 31
Radix     == 36
SuffixLen == 12
Limb      == 65536   \* a u64 is four 16-bit limbs, least significant first

\* ----------------------------------------------------------------- strings
S_Slash       == <<"/">>
S_demo_user   == <<"d","e","m","o","_","u","s","e","r">>
S_NGBW_JOB    == <<"N","G","B","W","-","J","O","B","-">>
S_Connected   == <<"C","o","n","n","e","c","t","e","d"," ","a","s"," ">>
S_nsg_download == <<"n","s","g","_","d","o","w","n","l","o","a","d","_">>
S_nsg_results == <<"n","s","g","_","r","e","s","u","l","t","s","_">>
S_zip         == <<".","z","i","p">>
Chars36 == <<"0","1","2","3","4","5","6","7","8","9","A","B","C","D","E","F",
             "G","H","I","J","K","L","M","N","O","P","Q","R","S","T","U","V",
             "W","X","Y","Z">>

\* str::bytes() of a one-character string (ASCII)
ByteOf(c) ==
  CASE c = "/" -> 47
    [] c = "A" -> 65
    [] c = "B" -> 66
    [] c = "h" -> 104
    [] c = "o" -> 111
    [] c = "u" -> 117
    [] c = "v" -> 118
    [] OTHER   -> 63

Last(s) == s[Len(s)]

\* index of the first "/" in s, 0 when there is none
RECURSIVE FirstSlashFrom(_, _)
FirstSlashFrom(s, i) ==
  IF i > Len(s) THEN 0
  ELSE IF s[i] = "/" THEN i
  ELSE FirstSlashFrom(s, i + 1)

\* str::split('/'): never empty; "" gives <<"">>, "a/" gives <<"a", "">>
RECURSIVE Split(_)
Split(s) ==
  LET i == FirstSlashFrom(s, 1) IN
  IF i = 0 THEN <<s>>
  ELSE <<SubSeq(s, 1, i - 1)>> \o Split(SubSeq(s, i + 1, Len(s)))

\* [String]::join("/")
RECURSIVE JoinSlash(_)
JoinSlash(parts) ==
  IF Len(parts) = 0 THEN <<>>
  ELSE IF Len(parts) = 1 THEN parts[1]
  ELSE parts[1] \o S_Slash \o JoinSlash(Tail(parts))

\* ------------------------------------------------------- 64-bit arithmetic
U64Zero == <<0, 0, 0, 0>>

\* mutant of WrappingMulAdd: the hash is kept in 32 bits
WrappingMulAdd_u32(h, b) ==
  LET t1 == h[1] * HashMul + b
      t2 == h[2] * HashMul + (t1 \div Limb)
  IN  <<t1 % Limb, t2 % Limb, 0, 0>>

\* hash.wrapping_mul(31).wrapping_add(byte): the carry out of the top limb
\* is dropped
WrappingMulAdd(h, b) ==
  LET t1 == h[1] * HashMul + b
      t2 == h[2] * HashMul + (t1 \div Limb)
      t3 == h[3] * HashMul + (t2 \div Limb)
      t4 == h[4] * HashMul + (t3 \div Limb)
  IN  <<t1 % Limb, t2 % Limb, t3 % Limb, t4 % Limb>>

\* h % 36 and h / 36 by long division from the top limb
DivRem36(h) ==
  LET x4 == h[4]
      x3 == (x4 % Radix) * Limb + h[3]
      x2 == (x3 % Radix) * Limb + h[2]
      x1 == (x2 % Radix) * Limb + h[1]
  IN  [quot |-> <<x1 \div Radix, x2 \div Radix, x3 \div Radix, x4 \div Radix>>,
       rem  |-> x1 % Radix]

\* for byte in job_id.bytes() { hash = hash*31 + byte }
RECURSIVE HashFrom(_, _, _)
HashFrom(s, i, h) ==
  IF i > Len(s) THEN h
  ELSE HashFrom(s, i + 1, WrappingMulAdd(h, ByteOf(s[i])))

\* for _ in 0..12 { suffix.push(chars[h % 36]); h /= 36 }
RECURSIVE Base36Suffix(_, _)
Base36Suffix(h, n) ==
  IF n = 0 THEN <<>>
  ELSE LET d == DivRem36(h) IN
       <<Chars36[d.rem + 1]>> \o Base36Suffix(d.quot, n - 1)


\* ------------------------------------------------------------------ inputs
\* the arguments connect is called with: two accounts that differ in every
\* field but the application key
CredentialsSet == { [username |-> <<"u">>, password |-> "pw1", app_key |-> "key"],
                    [username |-> <<"v">>, password |-> "pw2", app_key |-> "key"] }

\* the jobs the remote service holds: the id and the reference it issued
RemoteJobs == { [job_id |-> <<"A">>, url |-> <<"h","/","u","/","A">>] }
RealUrls   == {j.url : j \in RemoteJobs}
RealJobIds == {j.job_id : j \in RemoteJobs}

OutputDirs == {<<"o">>}

\* what the fetcher can stage: a path below the staging directory and bytes
FileItems == { [path |-> <<"a.txt">>,      content |-> "abc"],
               [path |-> <<"d", "a.txt">>, content |-> "xyz"],
               [path |-> <<"b.txt">>,      content |-> "xyz"] }
FetchLists == UNION {[1..n -> FileItems] : n \in 0..MaxFiles}
\* the fetch results used where the runs interleave with other commands
SmallFetchLists == {<<[path |-> <<"a.txt">>, content |-> "abc"]>>}

VARIABLES
  showcase,     \* SHOWCASE_MODE == "1" in the process environment
  credentials,  \* AppState.credentials: Option<Credentials>
  lockHolder,   \* slot holding the credentials Mutex, 0 when free
  task,         \* the commands in flight, one record per slot
  staging,      \* the staging directories under std::env::temp_dir()
  outDirs,      \* the output directories that exist
  archives,     \* the files at the zip paths
  validated,    \* history: credentials whose connectivity check succeeded
  ncalls,       \* history: commands invoked so far
  anon          \* a call of an anonymizer function: its argument and return

vars == <<showcase, credentials, lockHolder, task, staging, outDirs, archives,
          validated, ncalls, anon>>

\* -------------------------------------------------------------- anonymizer
\* mutant of is_showcase_mode: the value of the variable is not compared
is_showcase_mode_any == TRUE

\* std::env::var("SHOWCASE_MODE").unwrap_or_default() == "1"
is_showcase_mode == showcase

anonymize_username(username) ==
  IF is_showcase_mode THEN S_demo_user ELSE username

anonymize_job_id(job_id) ==
  IF is_showcase_mode
    THEN S_NGBW_JOB \o Base36Suffix(HashFrom(job_id, 1, U64Zero), SuffixLen)
    ELSE job_id

\* mutant of anonymize_url: only the last segment is replaced
anonymize_url_last_only(url) ==
  IF is_showcase_mode
    THEN LET parts == Split(url)
             n     == Len(parts)
         IN  IF n >= 2
               THEN JoinSlash([k \in 1..n |->
                      IF k = n THEN anonymize_job_id(parts[n]) ELSE parts[k]])
               ELSE url
    ELSE url

anonymize_url(url) ==
  IF is_showcase_mode
    THEN LET parts == Split(url)
             n     == Len(parts)
         IN  IF n >= 2
               THEN JoinSlash([k \in 1..n |->
                      IF k = n - 1 THEN S_demo_user
                      ELSE IF k = n THEN anonymize_job_id(parts[n])
                      ELSE parts[k]])
               ELSE url
    ELSE url

\* -------------------------------------------------------------- file names
\* std::env::temp_dir().join(format!("nsg_download_{}", job_id))
TempDirName(job_id) == S_nsg_download \o job_id

\* format!("nsg_results_{}.zip", job_id)
ZipFileName(job_id) == S_nsg_results \o job_id \o S_zip

\* PathBuf::from(dir).join(file), file a relative name
PathJoin(dir, file) ==
  IF Len(dir) = 0 THEN file
  ELSE IF Last(dir) = "/" THEN dir \o file
  ELSE dir \o S_Slash \o file

\* Path::file_name(): None for an empty path or one ending in ".."
FileName(path) ==
  IF Len(path) = 0 \/ Last(path) = ".." THEN {} ELSE {Last(path)}


\* ------------------------------------------------------------ command state
Slots == 1..NumSlots

NoResult == [status |-> "none", err |-> "", cause |-> "",
             str |-> <<>>, jobs |-> <<>>, details |-> {}]
Ok_str(v)     == [NoResult EXCEPT !.status = "ok", !.str = v]
Ok_jobs(v)    == [NoResult EXCEPT !.status = "ok", !.jobs = v]
Ok_details(v) == [NoResult EXCEPT !.status = "ok", !.details = {v}]
Err(e, c)     == [NoResult EXCEPT !.status = "err", !.err = e, !.cause = c]

Idle == [op |-> "idle", pc |-> "idle",
         creds |-> {},          \* connect: the argument; job commands: the copy
         job_url |-> <<>>, output_dir |-> <<>>,
         job_id |-> <<>>,       \* let job_id (line 252)
         files |-> <<>>,        \* let files (line 269): the fetched paths
         i |-> 0,               \* position of the for loop (line 302)
         zip_path |-> <<>>,     \* let zip_path (line 285)
         calls |-> <<>>,        \* history: the calls made on the NsgClient
         staged |-> FALSE,      \* history: create_dir_all(&temp_dir) succeeded
         fresh |-> FALSE,       \* history: temp_dir did not exist before it
         fetched |-> <<>>,      \* history: what the fetcher staged and returned
         sealed |-> FALSE,      \* history: zip.finish() succeeded
         progress |-> 0,        \* history: "download-progress" events emitted
         complete |-> 0,        \* history: "download-complete" events emitted
         undelivered |-> FALSE, \* history: some emit returned an error
         result |-> NoResult]

JobOps == {"list_jobs", "get_job_status", "submit_job", "download_results"}

\* the references a caller can hold: the ones the service issued, the ones
\* the commands show, and malformed ones
MalformedUrls == {<<>>, <<"h","/","u","/">>}
ShownUrls     == {anonymize_url(u) : u \in RealUrls}

RemoteCall(fn, url, c) == [fn |-> fn, url |-> url, creds |-> c]

Finish(t, me, r) == task' = [task EXCEPT ![t] = [me EXCEPT !.pc = "done", !.result = r]]

\* a slot is free, the caller has invocations left, slots fill lowest first;
\* a caller that awaits each command (single) has no other one in flight
CanInvoke(t, single) ==
  /\ task[t].op = "idle"
  /\ ncalls < MaxCalls
  /\ \A s \in Slots : s < t => task[s].op # "idle"
  /\ single => \A s \in Slots : task[s].op = "idle"

\* the staged files are records [path, content], one per path
WriteFile(dir, item) == {f \in dir : f.path # item.path} \cup {item}

RECURSIVE WriteAll(_, _)
WriteAll(dir, items) ==
  IF Len(items) = 0 THEN dir
  ELSE WriteAll(WriteFile(dir, items[1]), Tail(items))

\* std::fs::read of a staged file: Some(bytes), None when it is missing
ReadFile(dir, path) == {f.content : f \in {g \in dir : g.path = path}}

\* no anonymizer function has been called
NoCall == [fn |-> "none", arg |-> <<>>, ret |-> <<>>]

\* ------------------------------------------------------------ AppState init
Init ==
  /\ showcase \in BOOLEAN
  /\ credentials = {}
  /\ lockHolder = 0
  /\ task = [t \in Slots |-> Idle]
  /\ staging = [d \in {} |-> {}]
  /\ outDirs = {}
  /\ archives = [p \in {} |-> {}]
  /\ validated = {}
  /\ ncalls = 0
  /\ anon = NoCall

\* ------------------------------------------------------------------ connect
\* mutant of connect_invoke: the guard is taken before the check and kept
connect_invoke_locking(t, single) ==
  /\ CanInvoke(t, single)
  /\ lockHolder = 0
  /\ \E c \in CredentialsSet :
       task' = [task EXCEPT ![t] = [Idle EXCEPT !.op = "connect", !.pc = "check",
                                               !.creds = {c}]]
  /\ lockHolder' = t
  /\ ncalls' = ncalls + 1
  /\ UNCHANGED <<showcase, anon, credentials, staging, outDirs, archives, validated>>

\* lines 126-139: build creds, hand a clone to the worker
connect_invoke(t, single) ==
  /\ CanInvoke(t, single)
  /\ \E c \in CredentialsSet :
       task' = [task EXCEPT ![t] = [Idle EXCEPT !.op = "connect", !.pc = "check",
                                               !.creds = {c}]]
  /\ ncalls' = ncalls + 1
  /\ UNCHANGED <<showcase, anon, credentials, lockHolder, staging, outDirs, archives, validated>>

\* mutant of connect_check: the outcome of the check is not looked at
connect_check_ignored(t) ==
  /\ task[t].op = "connect" /\ task[t].pc = "check"
  /\ LET me == task[t]
         c  == CHOOSE x \in me.creds : TRUE
         called == [me EXCEPT !.calls = Append(@, RemoteCall("test_connection", <<>>, c))]
     IN  /\ task' = [task EXCEPT ![t] = [called EXCEPT !.pc = "store"]]
         /\ \/ validated' = validated \cup {c}
            \/ UNCHANGED validated
  /\ UNCHANGED <<showcase, anon, credentials, lockHolder, staging, outDirs, archives, ncalls>>

\* lines 140-146: NsgClient::new, test_connection, the two map_err
connect_check(t) ==
  /\ task[t].op = "connect" /\ task[t].pc = "check"
  /\ LET me == task[t]
         c  == CHOOSE x \in me.creds : TRUE
         called == [me EXCEPT !.calls = Append(@, RemoteCall("test_connection", <<>>, c))]
     IN  \/ /\ Finish(t, me, Err("Connection test failed", "client"))
            /\ UNCHANGED validated
         \/ /\ Finish(t, called, Err("Connection test failed", "remote"))
            /\ UNCHANGED validated
         \/ /\ Finish(t, called, Err("Task error", "panic"))
            /\ UNCHANGED validated
         \/ /\ task' = [task EXCEPT ![t] = [called EXCEPT !.pc = "store"]]
            /\ validated' = validated \cup {c}
  /\ UNCHANGED <<showcase, anon, credentials, lockHolder, staging, outDirs, archives, ncalls>>

\* line 149: state.credentials.lock().unwrap()
connect_lock(t) ==
  /\ task[t].op = "connect" /\ task[t].pc = "store"
  /\ lockHolder = 0
  /\ lockHolder' = t
  /\ task' = [task EXCEPT ![t].pc = "storing"]
  /\ UNCHANGED <<showcase, anon, credentials, staging, outDirs, archives, validated, ncalls>>

\* lines 149-151: the assignment through the guard, the guard dropped, Ok
connect_store(t) ==
  /\ task[t].op = "connect" /\ task[t].pc = "storing"
  /\ lockHolder = t
  /\ LET me == task[t]
         c  == CHOOSE x \in me.creds : TRUE
     IN  /\ credentials' = {c}
         /\ Finish(t, me, Ok_str(S_Connected \o anonymize_username(c.username)))
  /\ lockHolder' = 0
  /\ UNCHANGED <<showcase, anon, staging, outDirs, archives, validated, ncalls>>

\* ------------------------------------------------- the job commands' prologue
\* lines 155-158, 186-190, 213-221, 238-247: the command is invoked and takes
\* the credentials lock
job_invoke(t, single, urls) ==
  /\ CanInvoke(t, single)
  /\ lockHolder = 0
  /\ \E op \in JobOps, url \in urls \cup {<<>>}, od \in OutputDirs \cup {<<>>} :
       \* job_url and output_dir are arguments of the commands that take them
       /\ IF op \in {"get_job_status", "download_results"}
            THEN url \in urls ELSE url = <<>>
       /\ IF op = "download_results" THEN od \in OutputDirs ELSE od = <<>>
       \* one download_results run at a time
       /\ op = "download_results" =>
            \A s \in Slots : task[s].op # "download_results"
       /\ task' = [task EXCEPT ![t] =
            [Idle EXCEPT !.op = op, !.pc = "locked", !.job_url = url,
                         !.output_dir = od]]
  /\ lockHolder' = t
  /\ ncalls' = ncalls + 1
  /\ UNCHANGED <<showcase, anon, credentials, staging, outDirs, archives, validated>>

\* mutant of ExtractJobId: the first segment instead of the last
ExtractJobId_first(job_url) ==
  LET parts == Split(job_url) IN
  IF Len(parts) = 0 THEN {} ELSE {parts[1]}

\* job_url.split('/').last().ok_or("Invalid job URL") (lines 252-256)
ExtractJobId(job_url) ==
  LET parts == Split(job_url) IN
  IF Len(parts) = 0 THEN {} ELSE {Last(parts)}

\* mutant of copy_out: with nothing stored the command goes on, with
\* credentials of its own
copy_out_unchecked(t) ==
  /\ task[t].op \in JobOps /\ task[t].pc = "locked"
  /\ lockHolder = t
  /\ lockHolder' = 0
  /\ LET me == task[t]
         c  == IF credentials = {}
                 THEN {CHOOSE x \in CredentialsSet : TRUE} ELSE credentials
     IN  IF me.op # "download_results"
           THEN task' = [task EXCEPT ![t] = [me EXCEPT !.creds = c, !.pc = "remote"]]
           ELSE task' = [task EXCEPT ![t] =
                  [me EXCEPT !.creds = c, !.pc = "mkdir",
                             !.job_id = Last(Split(me.job_url))]]
  /\ UNCHANGED <<showcase, anon, credentials, staging, outDirs, archives, validated, ncalls>>

\* lines 159-161, 191-192, 222-223, 248-256: clone the Option, drop the
\* guard, ok_or("Not connected")?; download_results then takes the job id
copy_out(t) ==
  /\ task[t].op \in JobOps /\ task[t].pc = "locked"
  /\ lockHolder = t
  /\ lockHolder' = 0
  /\ LET me == task[t] IN
       IF credentials = {}
         THEN Finish(t, me, Err("Not connected", ""))
       ELSE IF me.op # "download_results"
         THEN task' = [task EXCEPT ![t] = [me EXCEPT !.creds = credentials,
                                                     !.pc = "remote"]]
       ELSE IF ExtractJobId(me.job_url) = {}
         THEN Finish(t, [me EXCEPT !.creds = credentials],
                     Err("Invalid job URL", ""))
       ELSE task' = [task EXCEPT ![t] =
              [me EXCEPT !.creds = credentials, !.pc = "mkdir",
                         !.job_id = CHOOSE x \in ExtractJobId(me.job_url) : TRUE]]
  /\ UNCHANGED <<showcase, anon, credentials, staging, outDirs, archives, validated, ncalls>>


\* --------------------------------------------------- the remote service
\* nsg_cli's JobStatus of a job: its id, its own reference and, when it has
\* results, the reference of its output
S_output == <<"/", "o">>
RemoteStatus(j, hasResults) ==
  [job_id |-> j.job_id, self_uri |-> j.url,
   results_uri |-> IF hasResults THEN {j.url \o S_output} ELSE {}]

\* client.list_jobs(): the service's jobs in the order it chooses
ListOutcomes ==
  {<<>>} \cup {<<j>> : j \in RemoteJobs}
         \cup {<<j, k>> : <<j, k>> \in {p \in RemoteJobs \X RemoteJobs : p[1] # p[2]}}

\* lines 171-182: the JobSummary built for each job
JobSummary(j) == [job_id |-> anonymize_job_id(j.job_id), url |-> anonymize_url(j.url)]

\* lines 202-209: the JobDetails built from a status
JobDetails(status) ==
  [job_id      |-> anonymize_job_id(status.job_id),
   self_uri    |-> anonymize_url(status.self_uri),
   results_uri |-> {anonymize_url(u) : u \in status.results_uri}]

\* line 234: Ok(status.job_id)
SubmitResponse(status) == status.job_id

\* mutant of list_jobs_remote: the client is built from what is stored when
\* the call is made
list_jobs_remote_current(t) ==
  /\ task[t].op = "list_jobs" /\ task[t].pc = "remote"
  /\ LET me == task[t]
         c  == CHOOSE x \in credentials : TRUE
         called == [me EXCEPT !.calls = Append(@, RemoteCall("list_jobs", <<>>, c))]
     IN  \/ Finish(t, me, Err("Failed to list jobs", "client"))
         \/ Finish(t, called, Err("Failed to list jobs", "remote"))
         \/ \E jobs \in ListOutcomes :
              Finish(t, called, Ok_jobs([k \in 1..Len(jobs) |-> JobSummary(jobs[k])]))
  /\ UNCHANGED <<showcase, anon, credentials, lockHolder, staging, outDirs, archives,
                 validated, ncalls>>

\* lines 163-183: the worker's client and call, the two map_err, the mapping
list_jobs_remote(t) ==
  /\ task[t].op = "list_jobs" /\ task[t].pc = "remote"
  /\ LET me == task[t]
         c  == CHOOSE x \in me.creds : TRUE
         called == [me EXCEPT !.calls = Append(@, RemoteCall("list_jobs", <<>>, c))]
     IN  \/ Finish(t, me, Err("Failed to list jobs", "client"))
         \/ Finish(t, called, Err("Failed to list jobs", "remote"))
         \/ Finish(t, called, Err("Task error", "panic"))
         \/ \E jobs \in ListOutcomes :
              Finish(t, called, Ok_jobs([k \in 1..Len(jobs) |-> JobSummary(jobs[k])]))
  /\ UNCHANGED <<showcase, anon, credentials, lockHolder, staging, outDirs, archives,
                 validated, ncalls>>

\* lines 194-210
get_job_status_remote(t) ==
  /\ task[t].op = "get_job_status" /\ task[t].pc = "remote"
  /\ LET me == task[t]
         c  == CHOOSE x \in me.creds : TRUE
         called == [me EXCEPT !.calls = Append(@, RemoteCall("get_job_status", me.job_url, c))]
     IN  \/ Finish(t, me, Err("Failed to get job status", "client"))
         \/ Finish(t, called, Err("Failed to get job status", "remote"))
         \/ Finish(t, called, Err("Task error", "panic"))
         \/ \E j \in RemoteJobs, hasResults \in BOOLEAN :
              /\ j.url = me.job_url
              /\ Finish(t, called, Ok_details(JobDetails(RemoteStatus(j, hasResults))))
  /\ UNCHANGED <<showcase, anon, credentials, lockHolder, staging, outDirs, archives,
                 validated, ncalls>>

\* lines 225-235
submit_job_remote(t) ==
  /\ task[t].op = "submit_job" /\ task[t].pc = "remote"
  /\ LET me == task[t]
         c  == CHOOSE x \in me.creds : TRUE
         called == [me EXCEPT !.calls = Append(@, RemoteCall("submit_job", <<>>, c))]
     IN  \/ Finish(t, me, Err("Failed to submit job", "client"))
         \/ Finish(t, called, Err("Failed to submit job", "remote"))
         \/ Finish(t, called, Err("Task error", "panic"))
         \/ \E j \in RemoteJobs :
              Finish(t, called, Ok_str(SubmitResponse(RemoteStatus(j, FALSE))))
  /\ UNCHANGED <<showcase, anon, credentials, lockHolder, staging, outDirs, archives,
                 validated, ncalls>>

\* ------------------------------------------------------- download_results
\* lines 260-262: temp_dir, create_dir_all (an existing directory is kept
\* with what it holds)
CreateDirAll(dirs, d) ==
  [x \in DOMAIN dirs \cup {d} |-> IF x \in DOMAIN dirs THEN dirs[x] ELSE {}]

\* mutant of download_mkdir: the output directory is created with the
\* staging directory
download_mkdir_both(t) ==
  /\ task[t].op = "download_results" /\ task[t].pc = "mkdir"
  /\ LET me == task[t]
         temp_dir == TempDirName(me.job_id)
     IN  \/ /\ Finish(t, me, Err("Failed to create temp dir", "io"))
            /\ UNCHANGED <<staging, outDirs>>
         \/ /\ staging' = CreateDirAll(staging, temp_dir)
            /\ outDirs' = outDirs \cup {me.output_dir}
            /\ task' = [task EXCEPT ![t] =
                 [me EXCEPT !.pc = "fetch", !.staged = TRUE,
                            !.fresh = (temp_dir \notin DOMAIN staging)]]
  /\ UNCHANGED <<showcase, anon, credentials, lockHolder, archives, validated, ncalls>>

download_mkdir(t) ==
  /\ task[t].op = "download_results" /\ task[t].pc = "mkdir"
  /\ LET me == task[t]
         temp_dir == TempDirName(me.job_id)
     IN  \/ /\ Finish(t, me, Err("Failed to create temp dir", "io"))
            /\ UNCHANGED staging
         \/ /\ staging' = CreateDirAll(staging, temp_dir)
            /\ task' = [task EXCEPT ![t] =
                 [me EXCEPT !.pc = "fetch", !.staged = TRUE,
                            !.fresh = (temp_dir \notin DOMAIN staging)]]
  /\ UNCHANGED <<showcase, anon, credentials, lockHolder, outDirs, archives, validated, ncalls>>

\* what a fetch that stops early has staged
ProperPrefixes(lists) ==
  {SubSeq(l, 1, k) : <<l, k>> \in {p \in lists \X (0..MaxFiles) : p[2] < Len(p[1])}}

\* lines 265-281: the client, the fetch with its progress callback, map_err.
\* The fetcher stages items in order (a later item replaces an earlier one
\* at the same path) and calls the callback once per item; it succeeds only
\* for a reference of the service.
download_fetch(t, lists) ==
  /\ task[t].op = "download_results" /\ task[t].pc = "fetch"
  /\ LET me == task[t]
         c  == CHOOSE x \in me.creds : TRUE
         temp_dir == TempDirName(me.job_id)
         called == [me EXCEPT !.calls = Append(@, RemoteCall("download_results", me.job_url, c))]
     IN  \/ /\ Finish(t, me, Err("Failed to create client", "client"))
            /\ UNCHANGED staging
         \/ \E items \in lists \cup ProperPrefixes(lists), ok \in BOOLEAN,
               lost \in BOOLEAN :
              /\ lost => Len(items) > 0
              /\ ok => (items \in lists /\ me.job_url \in RealUrls)
              \* a fetch that fails has staged the first files of a result
              /\ ~ok => items \in ProperPrefixes(lists)
              /\ me.job_url \notin RealUrls => items = <<>>
              /\ staging' = [staging EXCEPT ![temp_dir] = WriteAll(@, items)]
              /\ LET emitted == [called EXCEPT !.progress = Len(items),
                                                !.undelivered = lost]
                 IN  IF ok
                       THEN task' = [task EXCEPT ![t] =
                              [emitted EXCEPT !.pc = "outdir",
                                 !.files = [k \in 1..Len(items) |-> items[k].path],
                                 !.fetched = [k \in 1..Len(items) |->
                                    [path |-> items[k].path,
                                     content |-> CHOOSE b \in
                                        ReadFile(WriteAll(staging[temp_dir], items),
                                                 items[k].path) : TRUE]],
                                 !.zip_path = PathJoin(me.output_dir, ZipFileName(me.job_id))]]
                       ELSE Finish(t, emitted, Err("Failed to download results", "remote"))
  /\ UNCHANGED <<showcase, anon, credentials, lockHolder, outDirs, archives, validated, ncalls>>


\* lines 288-291: create_dir_all(zip_path.parent())
download_outdir(t) ==
  /\ task[t].op = "download_results" /\ task[t].pc = "outdir"
  /\ LET me == task[t] IN
       \/ /\ Finish(t, me, Err("Failed to create output dir", "io"))
          /\ UNCHANGED outDirs
       \/ /\ outDirs' = outDirs \cup {me.output_dir}
          /\ task' = [task EXCEPT ![t].pc = "create"]
  /\ UNCHANGED <<showcase, anon, credentials, lockHolder, staging, archives, validated, ncalls>>

\* mutant of FileCreate: an existing file is opened without truncating it
FileCreate_keep(files, path) ==
  [x \in DOMAIN files \cup {path} |->
     IF x # path THEN files[x]
     ELSE IF path \in DOMAIN files
       THEN [entries |-> files[path].entries, sealed |-> FALSE]
       ELSE [entries |-> <<>>, sealed |-> FALSE]]

\* File::create: the file exists afterwards and is empty
FileCreate(files, path) ==
  [x \in DOMAIN files \cup {path} |->
     IF x = path THEN [entries |-> <<>>, sealed |-> FALSE] ELSE files[x]]

\* lines 294-299: File::create(&zip_path), ZipWriter::new
download_create(t) ==
  /\ task[t].op = "download_results" /\ task[t].pc = "create"
  /\ LET me == task[t] IN
       \/ /\ Finish(t, me, Err("Failed to create zip file", "io"))
          /\ UNCHANGED archives
       \/ /\ archives' = FileCreate(archives, me.zip_path)
          /\ task' = [task EXCEPT ![t] =
               [me EXCEPT !.i = 1,
                          !.pc = IF Len(me.files) = 0 THEN "finish" ELSE "loop"]]
  /\ UNCHANGED <<showcase, anon, credentials, lockHolder, staging, outDirs, validated, ncalls>>

\* ZipWriter::start_file: a new, empty entry at the end of the archive;
\* refused when the archive already holds the name
ZipHasName(entries, name) == \E k \in 1..Len(entries) : entries[k].name = name

\* mutant of StartFile: a repeated name is accepted
StartFile_nodup(entries, name) ==
  [ok |-> TRUE, entries |-> Append(entries, [name |-> name, content |-> ""])]

\* mutant of StartFile: the new entry is put before the others
StartFile_front(entries, name) ==
  IF ZipHasName(entries, name)
    THEN [ok |-> FALSE, entries |-> entries]
    ELSE [ok |-> TRUE, entries |-> <<[name |-> name, content |-> ""]>> \o entries]

StartFile(entries, name) ==
  IF ZipHasName(entries, name)
    THEN [ok |-> FALSE, entries |-> entries]
    ELSE [ok |-> TRUE, entries |-> Append(entries, [name |-> name, content |-> ""])]

\* Write::write_all on the ZipWriter: the bytes of the entry being written
WriteAllEntry(entries, bytes) ==
  [entries EXCEPT ![Len(entries)].content = bytes]

\* lines 302-318: one turn of the for loop. Each call may fail for a reason
\* of its own (io); start_file also fails on a duplicate name.
download_add_file(t) ==
  /\ task[t].op = "download_results" /\ task[t].pc = "loop"
  /\ LET me == task[t]
         temp_dir  == TempDirName(me.job_id)
         file_path == me.files[me.i]
         file_name == FileName(file_path)
         contents  == ReadFile(staging[temp_dir], file_path)
         zip       == archives[me.zip_path]
     IN  IF file_name = {}
           THEN /\ Finish(t, me, Err("Invalid file path", ""))
                /\ UNCHANGED archives
         ELSE LET name    == CHOOSE n \in file_name : TRUE
                  started == StartFile(zip.entries, name)
              IN
           \/ /\ Finish(t, me, Err("Failed to read file", "io"))
              /\ UNCHANGED archives
           \/ /\ contents = {}
              /\ Finish(t, me, Err("Failed to read file", "missing"))
              /\ UNCHANGED archives
           \/ /\ contents # {}
              /\ Finish(t, me, Err("Failed to add file to zip", "io"))
              /\ UNCHANGED archives
           \/ /\ contents # {}
              /\ ~started.ok
              /\ Finish(t, me, Err("Failed to add file to zip", "Duplicate filename"))
              /\ UNCHANGED archives
           \/ /\ contents # {}
              /\ started.ok
              /\ archives' = [archives EXCEPT ![me.zip_path].entries = started.entries]
              /\ Finish(t, me, Err("Failed to write file to zip", "io"))
           \/ /\ contents # {}
              /\ started.ok
              /\ archives' = [archives EXCEPT ![me.zip_path].entries =
                                WriteAllEntry(started.entries,
                                              CHOOSE b \in contents : TRUE)]
              /\ task' = [task EXCEPT ![t] =
                   [me EXCEPT !.i = me.i + 1,
                              !.pc = IF me.i = Len(me.files) THEN "finish" ELSE "loop"]]
  /\ UNCHANGED <<showcase, anon, credentials, lockHolder, staging, outDirs, validated, ncalls>>

\* mutant of download_finish: the error of zip.finish() is dropped
download_finish_swallowed(t) ==
  /\ task[t].op = "download_results" /\ task[t].pc = "finish"
  /\ LET me == task[t] IN
       \/ /\ task' = [task EXCEPT ![t].pc = "rmdir"]
          /\ UNCHANGED archives
       \/ /\ archives' = [archives EXCEPT ![me.zip_path].sealed = TRUE]
          /\ task' = [task EXCEPT ![t] = [me EXCEPT !.sealed = TRUE, !.pc = "rmdir"]]
  /\ UNCHANGED <<showcase, anon, credentials, lockHolder, staging, outDirs, validated, ncalls>>

\* lines 321-322: zip.finish()
download_finish(t) ==
  /\ task[t].op = "download_results" /\ task[t].pc = "finish"
  /\ LET me == task[t] IN
       \/ /\ Finish(t, me, Err("Failed to finalize zip", "io"))
          /\ UNCHANGED archives
       \/ /\ archives' = [archives EXCEPT ![me.zip_path].sealed = TRUE]
          /\ task' = [task EXCEPT ![t] = [me EXCEPT !.sealed = TRUE, !.pc = "rmdir"]]
  /\ UNCHANGED <<showcase, anon, credentials, lockHolder, staging, outDirs, validated, ncalls>>

\* std::fs::remove_dir_all
RemoveDirAll(dirs, d) == [x \in DOMAIN dirs \ {d} |-> dirs[x]]

\* mutant of download_rmdir: a failed removal is rolled back and passed over
download_rmdir_rollback(t) ==
  /\ task[t].op = "download_results" /\ task[t].pc = "rmdir"
  /\ LET me == task[t] IN
       \/ /\ task' = [task EXCEPT ![t].pc = "emit"]
          /\ archives' = [x \in DOMAIN archives \ {me.zip_path} |-> archives[x]]
          /\ UNCHANGED staging
       \/ /\ staging' = RemoveDirAll(staging, TempDirName(me.job_id))
          /\ task' = [task EXCEPT ![t].pc = "emit"]
          /\ UNCHANGED archives
  /\ UNCHANGED <<showcase, anon, credentials, lockHolder, outDirs, validated, ncalls>>

\* lines 325-326
download_rmdir(t) ==
  /\ task[t].op = "download_results" /\ task[t].pc = "rmdir"
  /\ LET me == task[t] IN
       \/ /\ Finish(t, me, Err("Failed to clean up temp dir", "io"))
          /\ UNCHANGED staging
       \/ /\ staging' = RemoveDirAll(staging, TempDirName(me.job_id))
          /\ task' = [task EXCEPT ![t].pc = "emit"]
  /\ UNCHANGED <<showcase, anon, credentials, lockHolder, outDirs, archives, validated, ncalls>>

\* mutant of download_emit: the error of window.emit is propagated
download_emit_checked(t) ==
  /\ task[t].op = "download_results" /\ task[t].pc = "emit"
  /\ \E lost \in BOOLEAN :
       LET me == [task[t] EXCEPT !.complete = @ + 1, !.undelivered = @ \/ lost]
       IN  IF lost THEN Finish(t, me, Err("Failed to emit", "emit"))
                   ELSE Finish(t, me, Ok_str(task[t].zip_path))
  /\ UNCHANGED <<showcase, anon, credentials, lockHolder, staging, outDirs, archives,
                 validated, ncalls>>

\* lines 329-331: let _ = window.emit("download-complete"), Ok(zip_path)
download_emit(t) ==
  /\ task[t].op = "download_results" /\ task[t].pc = "emit"
  /\ \E lost \in BOOLEAN :
       Finish(t, [task[t] EXCEPT !.complete = @ + 1,
                                 !.undelivered = @ \/ lost],
              Ok_str(task[t].zip_path))
  /\ UNCHANGED <<showcase, anon, credentials, lockHolder, staging, outDirs, archives,
                 validated, ncalls>>

\* the command's result has reached the caller: the slot is free again
Return(t) ==
  /\ task[t].pc = "done"
  /\ task' = [task EXCEPT ![t] = Idle]
  /\ UNCHANGED <<showcase, anon, credentials, lockHolder, staging, outDirs, archives,
                 validated, ncalls>>

\* the commands interleave; the references are the ones the service issued
\* and the ones the commands show
Next ==
  \E t \in Slots :
    \/ connect_invoke(t, FALSE)
    \/ connect_check(t)
    \/ connect_lock(t)
    \/ connect_store(t)
    \/ job_invoke(t, FALSE, RealUrls \cup ShownUrls)
    \/ copy_out(t)
    \/ submit_job_remote(t)
    \/ list_jobs_remote(t)
    \/ get_job_status_remote(t)
    \/ download_mkdir(t)
    \/ download_fetch(t, SmallFetchLists)
    \/ download_outdir(t)
    \/ download_create(t)
    \/ download_add_file(t)
    \/ download_finish(t)
    \/ download_rmdir(t)
    \/ download_emit(t)
    \/ Return(t)

Spec == Init /\ [][Next]_vars

\* one command at a time, the references of the service and the malformed
\* ones, every fetch result
NextPipeline ==
  \E t \in Slots :
    \/ connect_invoke(t, TRUE)
    \/ connect_check(t)
    \/ connect_lock(t)
    \/ connect_store(t)
    \/ job_invoke(t, TRUE, RealUrls \cup MalformedUrls)
    \/ copy_out(t)
    \/ submit_job_remote(t)
    \/ list_jobs_remote(t)
    \/ get_job_status_remote(t)
    \/ download_mkdir(t)
    \/ download_fetch(t, FetchLists)
    \/ download_outdir(t)
    \/ download_create(t)
    \/ download_add_file(t)
    \/ download_finish(t)
    \/ download_rmdir(t)
    \/ download_emit(t)
    \/ Return(t)

SpecPipeline == Init /\ [][NextPipeline]_vars

\* ------------------------------------------- the anonymizer on every input
\* the strings the functions are applied to: every string of at most MaxLen
\* bytes over a letter and the separator
Alphabet   == {"A", "/"}
AnonInputs == UNION {[1..n -> Alphabet] : n \in 0..MaxLen}

InitAnonymizer ==
  /\ showcase \in BOOLEAN
  /\ credentials = {}
  /\ lockHolder = 0
  /\ task = [t \in Slots |-> Idle]
  /\ staging = [d \in {} |-> {}]
  /\ outDirs = {}
  /\ archives = [p \in {} |-> {}]
  /\ validated = {}
  /\ ncalls = 0
  /\ \E s \in AnonInputs : anon = [NoCall EXCEPT !.arg = s]

\* lines 47-53 applied to the input
call_anonymize_username ==
  /\ anon.fn = "none"
  /\ anon' = [anon EXCEPT !.fn = "anonymize_username",
                          !.ret = anonymize_username(anon.arg)]
  /\ UNCHANGED <<showcase, credentials, lockHolder, task, staging, outDirs,
                 archives, validated, ncalls>>

\* lines 55-79 applied to the input
call_anonymize_job_id ==
  /\ anon.fn = "none"
  /\ anon' = [anon EXCEPT !.fn = "anonymize_job_id",
                          !.ret = anonymize_job_id(anon.arg)]
  /\ UNCHANGED <<showcase, credentials, lockHolder, task, staging, outDirs,
                 archives, validated, ncalls>>

\* lines 81-102 applied to the input
call_anonymize_url ==
  /\ anon.fn = "none"
  /\ anon' = [anon EXCEPT !.fn = "anonymize_url",
                          !.ret = anonymize_url(anon.arg)]
  /\ UNCHANGED <<showcase, credentials, lockHolder, task, staging, outDirs,
                 archives, validated, ncalls>>

\* the mapping of list_jobs (lines 171-182) on a job whose id and reference
\* are the input
call_JobSummary ==
  /\ anon.fn = "none"
  /\ anon' = [anon EXCEPT !.fn = "JobSummary",
                          !.ret = JobSummary([job_id |-> anon.arg, url |-> anon.arg])]
  /\ UNCHANGED <<showcase, credentials, lockHolder, task, staging, outDirs,
                 archives, validated, ncalls>>

\* the mapping of get_job_status (lines 202-209) on a status made of the input
call_JobDetails ==
  /\ anon.fn = "none"
  /\ anon' = [anon EXCEPT !.fn = "JobDetails",
                          !.ret = JobDetails([job_id |-> anon.arg,
                                              self_uri |-> anon.arg,
                                              results_uri |-> {anon.arg}])]
  /\ UNCHANGED <<showcase, credentials, lockHolder, task, staging, outDirs,
                 archives, validated, ncalls>>

NextAnonymizer ==
  \/ call_anonymize_username
  \/ call_anonymize_job_id
  \/ call_anonymize_url
  \/ call_JobSummary
  \/ call_JobDetails

SpecAnonymizer == InitAnonymizer /\ [][NextAnonymizer]_vars

\* ================================================================== claims
Downloads  == {t \in Slots : task[t].op = "download_results"}
Done(t)    == task[t].pc = "done"
Failed(t)  == Done(t) /\ task[t].result.status = "err"
Succeeded(t) == Done(t) /\ task[t].result.status = "ok"
StagingDirOf(t) == TempDirName(task[t].job_id)

\* C1: a download_results run that created its staging directory and then
\* failed has removed the directory by the time the error is returned.
C1_StagingRemovedOnFailure ==
  \A t \in Downloads :
    (Failed(t) /\ task[t].staged) => StagingDirOf(t) \notin DOMAIN staging

\* the archive entry a fetched file must become: its base name, its bytes
ExpectedEntry(f) == [name |-> Last(f.path), content |-> f.content]

\* C2: when download_results returns Ok, the file at the computed path is a
\* sealed archive whose entries are exactly the fetched files of this run,
\* one entry per file with the staged bytes, and the staging directory is
\* gone.
C2_SuccessPostcondition ==
  \A t \in Downloads :
    Succeeded(t) =>
      LET me   == task[t]
          path == PathJoin(me.output_dir, ZipFileName(me.job_id))
      IN  /\ me.result.str = path
          /\ path \in DOMAIN archives
          /\ archives[path].sealed
          /\ Len(archives[path].entries) = Len(me.fetched)
          /\ \A k \in 1..Len(me.fetched) :
               archives[path].entries[k] = ExpectedEntry(me.fetched[k])
          /\ StagingDirOf(t) \notin DOMAIN staging

\* a successful run with as many files as the fetcher may return
C2_Witness ==
  \E t \in Downloads : Succeeded(t) /\ Len(task[t].fetched) >= 2

HasDuplicateName(files) ==
  \E i, j \in 1..Len(files) : i < j /\ Last(files[i]) = Last(files[j])

\* the position of the first file whose base name an earlier file has
FirstDuplicate(files) ==
  CHOOSE j \in 1..Len(files) :
    /\ \E i \in 1..(j - 1) : Last(files[i]) = Last(files[j])
    /\ \A k \in 1..(j - 1) :
         ~ \E i \in 1..(k - 1) : Last(files[i]) = Last(files[k])

UniqueEntryNames(entries) ==
  \A i, j \in 1..Len(entries) : entries[i].name = entries[j].name => i = j

NotConnected == Err("Not connected", "")

\* C4: a job command that finds no credentials stored when it copies them
\* out returns "Not connected" at once, has made no call on the client and
\* (download_results) has created no staging directory; and no command
\* past its copy-out makes a call without credentials.
C4_NotConnectedNoRemoteCall ==
  /\ [] \A t \in Slots :
          (task[t].op \in JobOps /\ task[t].pc # "locked") =>
             /\ task[t].creds = {} <=> (Done(t) /\ task[t].result = NotConnected)
             /\ task[t].creds = {} => (task[t].calls = <<>> /\ ~task[t].staged)
             /\ \A k \in 1..Len(task[t].calls) : task[t].calls[k].creds \in task[t].creds
  /\ [][ \A t \in Slots :
           (task[t].op \in JobOps /\ task[t].pc = "locked" /\ credentials = {}
              /\ task'[t] # task[t])
             => (task'[t].pc = "done" /\ task'[t].result = NotConnected
                 /\ task'[t].calls = <<>> /\ staging' = staging) ]_vars

\* download_results has been refused while a connect whose check succeeded
\* has not stored its credentials yet
C4_Witness ==
  \E t \in Downloads, s \in Slots :
    /\ Done(t) /\ task[t].result = NotConnected /\ task[t].calls = <<>>
    /\ task[s].op = "connect" /\ task[s].pc = "store"
    /\ credentials = {}

\* C5: the stored credentials are absent or the argument of a connect whose
\* check succeeded; only the store step of such a connect changes them; a
\* connect whose check or worker fails leaves them as they were.
C5_StoreOnlyAfterCheck ==
  /\ [] (credentials \subseteq validated /\ Cardinality(credentials) <= 1)
  /\ [][ credentials' # credentials =>
           \E t \in Slots : /\ task[t].op = "connect" /\ task[t].pc = "storing"
                            /\ task[t].creds \subseteq validated
                            /\ credentials' = task[t].creds ]_vars
  /\ [][ \A t \in Slots :
           (task[t].op = "connect" /\ task[t].pc = "check"
              /\ task'[t].pc = "done" /\ task'[t].result.status = "err")
             => credentials' = credentials ]_vars

\* a connect has failed while the credentials of an earlier one stay stored
C5_Witness ==
  \E t \in Slots :
    /\ task[t].op = "connect" /\ Failed(t)
    /\ credentials # {} /\ credentials # task[t].creds

\* C6: a run that returns Ok has emitted "download-complete" once, a run
\* that fails has not emitted it, and it is emitted only with the archive
\* sealed.
C6_CompleteOncePerSuccess ==
  \A t \in Downloads :
    LET me == task[t] IN
      /\ Succeeded(t) => me.complete = 1
      /\ Failed(t) => me.complete = 0
      /\ me.pc = "emit" => me.complete = 0
      /\ (me.complete > 0 \/ me.pc = "emit") =>
           /\ me.sealed
           /\ me.zip_path \in DOMAIN archives
           /\ archives[me.zip_path].sealed

C6_Witness ==
  \E t \in Downloads : Succeeded(t) /\ task[t].complete = 1 /\ task[t].sealed

\* C7: when a run creates its staging directory, no directory of that name
\* exists.
C7_StagingDirFresh ==
  \A t \in Downloads : task[t].staged => task[t].fresh

\* no token can be taken from the reference
NoToken(job_url) == Len(job_url) = 0 \/ Len(Last(Split(job_url))) = 0

\* C8: with credentials stored, download_results on a reference without a
\* token fails with "Invalid job URL" before it creates a staging directory
\* or calls the client.
C8_InvalidReferenceRejected ==
  \A t \in Downloads :
    (task[t].pc # "locked" /\ task[t].creds # {} /\ NoToken(task[t].job_url)) =>
       /\ Done(t) /\ task[t].result.err = "Invalid job URL"
       /\ ~task[t].staged
       /\ task[t].calls = <<>>

\* the archive name the specification gives: results_<token>.zip
S_results == <<"r","e","s","u","l","t","s","_">>

\* C9 as stated: the archive of a successful run on a reference whose last
\* segment is T is <output_dir>/results_T.zip, and that is the path returned.
C9_ResultsName ==
  \A t \in Downloads :
    Succeeded(t) =>
      LET me   == task[t]
          path == me.output_dir \o S_Slash \o S_results \o Last(Split(me.job_url)) \o S_zip
      IN  me.result.str = path /\ path \in DOMAIN archives

\* C9 amended: the archive of a successful run on a reference whose last
\* segment is T is <output_dir>/nsg_results_T.zip, and that is the path
\* returned.
C9_NsgResultsName ==
  \A t \in Downloads :
    Succeeded(t) =>
      LET me   == task[t]
          path == me.output_dir \o S_Slash \o S_nsg_results
                    \o Last(Split(me.job_url)) \o S_zip
      IN  /\ me.result.str = path
          /\ path \in DOMAIN archives
          /\ archives[path].sealed

C9_Witness ==
  \E t \in Downloads :
    /\ Succeeded(t)
    /\ task[t].job_url = <<"h","/","u","/","A">>
    /\ task[t].result.str =
         <<"o","/","n","s","g","_","r","e","s","u","l","t","s","_","A",".","z","i","p">>

\* the identifiers a response carries
Segments(url) == {Split(url)[k] : k \in 1..Len(Split(url))}

ResponseIdentifiers(me) ==
  LET r == me.result IN
  CASE me.op = "connect" ->
         {SubSeq(r.str, Len(S_Connected) + 1, Len(r.str))}
    [] me.op = "list_jobs" ->
         UNION {{r.jobs[k].job_id} \cup Segments(r.jobs[k].url) : k \in 1..Len(r.jobs)}
    [] me.op = "get_job_status" ->
         UNION {{d.job_id} \cup Segments(d.self_uri)
                  \cup UNION {Segments(u) : u \in d.results_uri} : d \in r.details}
    [] me.op = "submit_job" -> {r.str}
    [] me.op = "download_results" ->
         LET name == Last(Split(r.str)) IN
         {SubSeq(name, Len(S_nsg_results) + 1, Len(name) - Len(S_zip))}
    [] OTHER -> {}

\* the job ids the service issued and the user names of the accounts
RealIdentifiers == RealJobIds \cup {c.username : c \in CredentialsSet}

\* C10: in showcase mode no response of a command carries a job id or user
\* name of the service.
C10_ShowcaseHidesIdentifiers ==
  showcase =>
    \A t \in Slots :
      Succeeded(t) => ResponseIdentifiers(task[t]) \cap RealIdentifiers = {}

\* the steps in which a command runs a connectivity check, a call on the
\* client or a file-system operation
IOSteps == {"check", "remote", "mkdir", "fetch", "outdir", "create", "loop",
            "finish", "rmdir", "emit"}

\* C11: the slot that holds the credentials lock is at its copy-out or its
\* copy-in and nowhere else, so never at a check, a call on the client or a
\* file-system step; the step it takes with the lock releases it, makes no
\* call and touches no file.
C11_LockOnlyForCopy ==
  /\ [] (lockHolder \in Slots \cup {0})
  /\ [] \A t \in Slots :
          lockHolder = t =>
             /\ task[t].pc \in {"locked", "storing"}
             /\ task[t].pc \notin IOSteps
             /\ task[t].pc = "locked"  => task[t].op \in JobOps
             /\ task[t].pc = "storing" => task[t].op = "connect"
  /\ [][ \A t \in Slots :
           (lockHolder = t /\ task'[t] # task[t]) =>
              /\ lockHolder' = 0
              /\ task'[t].calls = task[t].calls
              /\ staging' = staging /\ outDirs' = outDirs
              /\ archives' = archives ]_vars

\* a command holds the lock while another one is in its remote call
C11_Witness ==
  \E t, s \in Slots :
    /\ lockHolder = t /\ task[t].pc = "locked"
    /\ s # t /\ task[s].op \in JobOps /\ task[s].pc = "remote"

\* a command's record without the outcome of its deliveries
Delivered(rec) == [rec EXCEPT !.undelivered = FALSE]

\* the errors of the pipeline's own steps from the fetch on
PipelineErrors ==
  {"Failed to download results", "Failed to create output dir",
   "Failed to create zip file", "Invalid file path", "Failed to read file",
   "Failed to add file to zip", "Failed to write file to zip",
   "Failed to finalize zip", "Failed to clean up temp dir"}

\* C12: a notification that is not delivered changes nothing but the record
\* of its delivery. The completion step gives Ok(zip_path) and leaves every
\* file as it is whether or not the event is delivered; the fetch step ends
\* in the fetcher's own outcome whether or not a progress event is delivered;
\* a run with an undelivered event that returns Ok has the sealed archive of
\* its fetched files and no staging directory, and one that fails fails with
\* an error of a pipeline step.
C12_EmitFailureSwallowed ==
  /\ [] \A t \in Downloads :
          LET me == task[t] IN
            me.undelivered =>
              /\ me.progress > 0 \/ me.complete > 0
              /\ Failed(t) => me.result.err \in PipelineErrors
              /\ me.pc = "done" /\ me.complete = 1 =>
                   /\ me.result = Ok_str(me.zip_path)
                   /\ me.zip_path \in DOMAIN archives
                   /\ archives[me.zip_path].sealed
                   /\ archives[me.zip_path].entries =
                        [k \in 1..Len(me.fetched) |-> ExpectedEntry(me.fetched[k])]
                   /\ StagingDirOf(t) \notin DOMAIN staging
  /\ [][ \A t \in Slots :
           (task[t].op = "download_results" /\ task[t].pc = "emit"
              /\ task'[t] # task[t]) =>
             /\ Delivered(task'[t]) =
                  [Delivered(task[t]) EXCEPT !.pc = "done", !.complete = 1,
                                             !.result = Ok_str(task[t].zip_path)]
             /\ staging' = staging /\ outDirs' = outDirs /\ archives' = archives ]_vars
  /\ [][ \A t \in Slots :
           (task[t].op = "download_results" /\ task[t].pc = "fetch"
              /\ task'[t] # task[t] /\ task'[t].undelivered) =>
             /\ outDirs' = outDirs /\ archives' = archives
             /\ Len(task'[t].calls) = 1
             /\ \/ /\ task'[t].pc = "outdir"
                    /\ task'[t].progress = Len(task'[t].files)
                    /\ \A k \in 1..Len(task'[t].fetched) :
                         task'[t].fetched[k] \in staging'[StagingDirOf(t)]
                \/ /\ task'[t].pc = "done"
                    /\ task'[t].result = Err("Failed to download results", "remote") ]_vars

\* a run of two files returned Ok although an event was not delivered
C12_Witness ==
  \E t \in Downloads :
    Succeeded(t) /\ task[t].undelivered /\ Len(task[t].fetched) = 2

\* a number as a sequence of bytes, least significant first: x * m + c,
\* the carry out of the last byte dropped
RECURSIVE MulAddBytes(_, _, _)
MulAddBytes(x, m, c) ==
  IF Len(x) = 0 THEN <<>>
  ELSE LET t == x[1] * m + c IN <<t % 256>> \o MulAddBytes(Tail(x), m, t \div 256)

\* h := (h * 31 + byte) mod 2^64 over the first n bytes of s, from 0
RECURSIVE FoldMod64(_, _)
FoldMod64(s, n) ==
  IF n = 0 THEN <<0, 0, 0, 0, 0, 0, 0, 0>>
  ELSE MulAddBytes(FoldMod64(s, n - 1), 31, ByteOf(s[n]))

\* the value of base-36 digits, least significant first, in nine bytes
RECURSIVE FromDigits36(_, _)
FromDigits36(ds, k) ==
  IF k > Len(ds) THEN <<0, 0, 0, 0, 0, 0, 0, 0, 0>>
  ELSE MulAddBytes(FromDigits36(ds, k + 1), 36, ds[k])

Alphabet36 == {Chars36[k] : k \in 1..Len(Chars36)}
DigitOf(c) == (CHOOSE k \in 1..Len(Chars36) : Chars36[k] = c) - 1

\* C13: in showcase mode anonymize_job_id returns "NGBW-JOB-" and twelve
\* characters of 0-9A-Z, which are the twelve least significant base-36
\* digits, least significant first, of the fold h := (h*31 + byte) mod 2^64
\* of the input: with the one digit q that is left over,
\* sum(d_i * 36^i) + q * 36^12 = h. A second evaluation gives the same string.
C13_JobIdPseudonym ==
  (showcase /\ anon.fn = "anonymize_job_id") =>
    LET r  == anon.ret
        ds == [k \in 1..12 |-> DigitOf(r[9 + k])]
    IN  /\ Len(r) = 21
        /\ SubSeq(r, 1, 9) = <<"N","G","B","W","-","J","O","B","-">>
        /\ \A k \in 10..21 : r[k] \in Alphabet36
        /\ \E q \in 0..35 :
             FromDigits36(ds \o <<q>>, 1) = FoldMod64(anon.arg, Len(anon.arg)) \o <<0>>
        /\ r = anonymize_job_id(anon.arg)

\* thirteen bytes: the fold has passed 2^64 and the hash has a thirteenth
\* digit that is left out
C13_Witness ==
  /\ showcase /\ anon.fn = "anonymize_job_id"
  /\ anon.arg = <<"A","A","A","A","A","A","A","A","A","A","A","A","A">>
  /\ anon.ret = <<"N","G","B","W","-","J","O","B","-",
                  "L","B","Y","J","Z","A","4","4","N","8","N","D">>

\* C14: with showcase mode off each of the three functions returns its
\* input, and the records list_jobs and get_job_status build from the
\* service's data hold that data unchanged.
C14_IdentityWhenOff ==
  ~showcase =>
    /\ anon.fn \in {"anonymize_username", "anonymize_job_id", "anonymize_url"} =>
         anon.ret = anon.arg
    /\ anon.fn = "JobSummary" =>
         anon.ret = [job_id |-> anon.arg, url |-> anon.arg]
    /\ anon.fn = "JobDetails" =>
         anon.ret = [job_id |-> anon.arg, self_uri |-> anon.arg,
                     results_uri |-> {anon.arg}]

\* a reference of three segments has gone through get_job_status's mapping
C14_Witness ==
  /\ ~showcase /\ anon.fn = "JobDetails"
  /\ anon.arg = <<"A","/","A","/","A">>
  /\ anon.ret.self_uri = <<"A","/","A","/","A">>

\* the number of '/' in a string
Slashes(s) == Cardinality({k \in 1..Len(s) : s[k] = "/"})

\* C15: in showcase mode anonymize_url returns an input of fewer than two
\* segments unchanged; otherwise the result has as many segments as the
\* input, the second-to-last is "demo_user", the last is anonymize_job_id of
\* the input's last segment, and the others are the input's.
C15_UrlPseudonym ==
  (showcase /\ anon.fn = "anonymize_url") =>
    LET parts == Split(anon.arg)
        n     == Len(parts)
        out   == Split(anon.ret)
    IN  /\ n = Slashes(anon.arg) + 1
        /\ n < 2 => anon.ret = anon.arg
        /\ n >= 2 =>
             /\ Len(out) = n
             /\ Slashes(anon.ret) = Slashes(anon.arg)
             /\ out[n - 1] = <<"d","e","m","o","_","u","s","e","r">>
             /\ out[n] = anonymize_job_id(parts[n])
             /\ \A k \in 1..(n - 2) : out[k] = parts[k]

\* a reference of three segments
C15_Witness ==
  /\ showcase /\ anon.fn = "anonymize_url"
  /\ anon.arg = <<"A","/","A","/","A">>
  /\ anon.ret = <<"A","/","d","e","m","o","_","u","s","e","r","/",
                  "N","G","B","W","-","J","O","B","-",
                  "T","1","0","0","0","0","0","0","0","0","0","0">>

\* C16: the archive a run is writing holds, in the fetcher's order, one
\* entry for each file the loop has passed, named by the file's base name and
\* holding its bytes; the archive of a run that has left the loop or returned
\* Ok holds all the fetched files in that order.
C16_EntriesInFetchOrder ==
  \A t \in Downloads :
    LET me == task[t] IN
      (me.pc \in {"loop", "finish", "rmdir", "emit"} \/ Succeeded(t)) =>
        /\ me.zip_path \in DOMAIN archives
        /\ me.files = [k \in 1..Len(me.fetched) |-> me.fetched[k].path]
        /\ archives[me.zip_path].entries =
             [k \in 1..(me.i - 1) |-> ExpectedEntry(me.fetched[k])]
        /\ me.pc # "loop" => me.i - 1 = Len(me.fetched)

\* the fetcher returned b.txt before a.txt and the archive keeps that order
C16_Witness ==
  \E t \in Downloads :
    /\ Succeeded(t)
    /\ task[t].files = << <<"b.txt">>, <<"d", "a.txt">> >>
    /\ archives[task[t].zip_path].entries =
         << [name |-> "b.txt", content |-> "xyz"],
            [name |-> "a.txt", content |-> "xyz"] >>

CleanUpFailed == Err("Failed to clean up temp dir", "io")

\* C17: a run whose staging directory is still there after the removal step
\* returns the clean-up error, and the step leaves every archive as it was:
\* the run's archive is still the sealed archive of its fetched files, and no
\* completion event has been emitted.
C17_CleanupFailureKeepsArchive ==
  /\ [] \A t \in Downloads :
          (Done(t) /\ task[t].result.err = "Failed to clean up temp dir") =>
             LET me == task[t] IN
               /\ me.result = CleanUpFailed
               /\ me.sealed /\ me.complete = 0
               /\ StagingDirOf(t) \in DOMAIN staging
               /\ me.zip_path \in DOMAIN archives
               /\ archives[me.zip_path] =
                    [entries |-> [k \in 1..Len(me.fetched) |->
                                    ExpectedEntry(me.fetched[k])],
                     sealed |-> TRUE]
  /\ [][ \A t \in Slots :
           (task[t].op = "download_results" /\ task[t].pc = "rmdir"
              /\ task'[t] # task[t]) =>
             /\ archives' = archives
             /\ task[t].sealed /\ archives[task[t].zip_path].sealed
             /\ StagingDirOf(t) \in DOMAIN staging' =>
                  /\ staging' = staging
                  /\ task'[t].pc = "done" /\ task'[t].result = CleanUpFailed ]_vars

\* the removal failed after an archive of two files was sealed
C17_Witness ==
  \E t \in Downloads :
    /\ Done(t) /\ task[t].result = CleanUpFailed
    /\ Len(task[t].fetched) = 2
    /\ archives[task[t].zip_path].sealed
    /\ Len(archives[task[t].zip_path].entries) = 2

\* C18: a call that get_job_status or download_results makes for a reference
\* the commands have shown carries the reference the service issued for that
\* job.
C18_ShownReferenceReachesService ==
  \A t \in Slots :
    (task[t].op \in {"get_job_status", "download_results"}
       /\ task[t].job_url \in ShownUrls) =>
      \A k \in 1..Len(task[t].calls) :
        /\ task[t].calls[k].url \in RealUrls
        /\ anonymize_url(task[t].calls[k].url) = task[t].job_url

\* C19: what is stored is nothing or one whole argument of a connect; a job
\* command's copy is what is stored when it copies, the copy does not change
\* while the command runs, and every call the command makes carries the
\* copy, whatever is stored by then.
C19_CallsUseSnapshot ==
  /\ [] /\ credentials \subseteq CredentialsSet
        /\ Cardinality(credentials) <= 1
        /\ \A t \in Slots :
             task[t].op \in JobOps =>
               \A k \in 1..Len(task[t].calls) :
                 task[t].calls[k].creds \in task[t].creds
  /\ [][ \A t \in Slots :
           (task[t].op \in JobOps /\ task'[t].op = task[t].op) =>
             /\ (task[t].pc = "locked" /\ task'[t] # task[t]) =>
                  task'[t].creds = credentials
             /\ task[t].pc # "locked" => task'[t].creds = task[t].creds
             /\ Len(task'[t].calls) > Len(task[t].calls) =>
                  /\ Len(task'[t].calls) = Len(task[t].calls) + 1
                  /\ Last(task'[t].calls).creds \in task[t].creds ]_vars

\* a job command has made its call with the credentials it copied while a
\* later connect has stored other ones
C19_Witness ==
  \E t \in Slots :
    /\ task[t].op \in JobOps /\ Len(task[t].calls) = 1
    /\ credentials # {}
    /\ task[t].calls[1].creds \notin credentials
    /\ task[t].calls[1].creds \in validated

\* the errors of download_results up to and including the fetch
EarlyErrors ==
  {"Not connected", "Invalid job URL", "Failed to create temp dir",
   "Failed to create client", "Failed to download results"}

\* C20: no step of download_results up to and including the fetch creates an
\* output directory or creates, truncates or writes an archive; the output
\* side changes only in the steps of a run whose fetch has succeeded; and a
\* run that failed with one of the errors of those early steps never reached
\* the output steps.
C20_EarlyFailureLeavesOutput ==
  /\ [] \A t \in Downloads :
          (Failed(t) /\ task[t].result.err \in EarlyErrors) =>
             /\ task[t].i = 0 /\ ~task[t].sealed
             /\ task[t].zip_path = <<>> /\ task[t].files = <<>>
  /\ [][ \A t \in Slots :
           (task[t].op = "download_results"
              /\ task[t].pc \in {"locked", "mkdir", "fetch"}
              /\ task'[t] # task[t]) =>
             (outDirs' = outDirs /\ archives' = archives) ]_vars
  /\ [][ (outDirs' # outDirs \/ archives' # archives) =>
           \E t \in Downloads :
             /\ task[t].pc \in {"outdir", "create", "loop", "finish"}
             /\ Len(task[t].calls) = 1
             /\ task[t].files = [k \in 1..Len(task[t].fetched) |->
                                   task[t].fetched[k].path] ]_vars

\* the fetch failed while the archive of an earlier run is at the path this
\* run would write; it is still that run's sealed archive
C20_Witness ==
  \E t \in Downloads :
    LET path == PathJoin(task[t].output_dir, ZipFileName(task[t].job_id)) IN
      /\ Failed(t) /\ task[t].result.err = "Failed to download results"
      /\ task[t].output_dir \in outDirs
      /\ path \in DOMAIN archives
      /\ archives[path].sealed
      /\ Len(archives[path].entries) >= 1

====
